---------------------------- MODULE Spec2Model ----------------------------
(***************************************************************************)
(* Model of the MIR validator, src/librustc_mir/transform/validate.rs.     *)
(*                                                                         *)
(* Validator::run_pass builds a TypeChecker over a function body and runs  *)
(* the MIR Visitor over it.  The TypeChecker overrides visit_operand,      *)
(* visit_statement and visit_terminator; every violation goes through      *)
(* TypeChecker::fail, which hands a delayed bug to the session           *)
(* diagnostic handler (the sink).                                          *)
(*                                                                         *)
(* The traversal is modelled one visited node per step, so that the        *)
(* position of the walk, the order of the visits and the growth of the     *)
(* sink are all part of the state.                                         *)
(***************************************************************************)
EXTENDS Integers, Sequences, FiniteSets, TLC

(***************************************************************************)
(* Bounds of the explored bodies.                                          *)
(***************************************************************************)
MaxBlocks == 2    \* blocks of a multi-block body
MaxStmts == 2     \* statements of a single-block body
MaxTargets == 2   \* targets of a SwitchInt
MaxValues == 1    \* values of a SwitchInt
MaxRuns == 2      \* invocations of the pass on the same body

VARIABLES body, param_env, sink, pc, loc, visited, runs, runStart,
          firstReports, lastReports

vars == <<body, param_env, sink, pc, loc, visited, runs, runStart,
          firstReports, lastReports>>

(***************************************************************************)
(* Types, places and operands.                                             *)
(***************************************************************************)
\* The types the explored bodies use: bool; a function item; a function
\* pointer; a struct that is never Copy; a generic parameter, Copy only
\* when the parameter environment says so.
Types == {"bool", "FnDef", "FnPtr", "Struct", "Param"}

\* Option<T>: None is the empty sequence, Some(x) the one-element sequence.
None == <<>>

Some(x) == <<x>>

\* The local slots of every explored body: _0: bool, _1: Struct, _2: FnDef,
\* _3: Param.
LocalDecls == [l \in 0..3 |->
                 CASE l = 0 -> "bool"
                   [] l = 1 -> "Struct"
                   [] l = 2 -> "FnDef"
                   [] l = 3 -> "Param"]

\* A place: a local and a projection chain.  Field projections carry the
\* type of the field.
LocalPlace(l) == [local |-> l, projection |-> <<>>]

FieldPlace(l, f, ty) == [local |-> l, projection |-> <<[field |-> f, ty |-> ty]>>]

\* Place::ty: the type of the local, or of the last field projected.
PlaceTy(place, local_decls) ==
    IF place.projection = <<>>
    THEN local_decls[place.local]
    ELSE place.projection[Len(place.projection)].ty

Copy(place) == [kind |-> "Copy", place |-> place]

Move(place) == [kind |-> "Move", place |-> place]

Constant(ty) == [kind |-> "Constant", ty |-> ty]

\* Operand::ty: the type of the place read, or of the constant.
OperandTy(operand, local_decls) ==
    IF operand.kind = "Constant"
    THEN operand.ty
    ELSE PlaceTy(operand.place, local_decls)

\* Ty::is_copy_modulo_regions under a parameter environment, given as the
\* set of generic parameters bounded by Copy.
is_copy_modulo_regions(ty, env) ==
    \/ ty \in {"bool", "FnDef", "FnPtr"}
    \/ ty \in env

(***************************************************************************)
(* Statements and terminators.                                             *)
(***************************************************************************)
Use(operand) == [kind |-> "Use", operand |-> operand]

UnaryOp(operand) == [kind |-> "UnaryOp", operand |-> operand]

Assign(dest, rvalue) == [kind |-> "Assign", dest |-> dest, rvalue |-> rvalue]

Nop == [kind |-> "Nop"]

Goto(target) == [kind |-> "Goto", target |-> target]

SwitchInt(values, targets) ==
    [kind |-> "SwitchInt", values |-> values, targets |-> targets]

Drop(target, unwind) == [kind |-> "Drop", target |-> target, unwind |-> unwind]

DropAndReplace(target, unwind) ==
    [kind |-> "DropAndReplace", target |-> target, unwind |-> unwind]

Call(func, destination, cleanup) ==
    [kind |-> "Call", func |-> func, destination |-> destination,
     cleanup |-> cleanup]

AssertTerm(cond, target, cleanup) ==
    [kind |-> "Assert", cond |-> cond, target |-> target, cleanup |-> cleanup]

Yield(resume, drop) == [kind |-> "Yield", resume |-> resume, drop |-> drop]

FalseEdge(real_target, imaginary_target) ==
    [kind |-> "FalseEdge", real_target |-> real_target,
     imaginary_target |-> imaginary_target]

FalseUnwind(real_target, unwind) ==
    [kind |-> "FalseUnwind", real_target |-> real_target, unwind |-> unwind]

InlineAsm(destination) == [kind |-> "InlineAsm", destination |-> destination]

NoSuccessorKinds == {"Resume", "Abort", "Return", "Unreachable", "GeneratorDrop"}

Exit(kind) == [kind |-> kind]

(***************************************************************************)
(* The diagnostic sink and the checks of the TypeChecker.                  *)
(***************************************************************************)
DefId == "DefId(0:3)"

When == "after-pass"

\* The messages fail is called with.
InvalidBB(bb) == [text |-> "encountered jump to invalid basic block", bb |-> bb]

CopyNonCopy(ty) == [text |-> "Operand::Copy with non-Copy type", ty |-> ty]

Overlapping == [text |-> "encountered Assign statement with overlapping memory"]

SwitchArity(nvalues, ntargets) ==
    [text |-> "encountered SwitchInt terminator with values, but targets",
     values |-> nvalues, targets |-> ntargets]

NonCallable(ty) ==
    [text |-> "encountered non-callable type in Call terminator", ty |-> ty]

NonBoolean(ty) ==
    [text |-> "encountered non-boolean condition in Assert terminator", ty |-> ty]

Location(block, statement_index) ==
    [block |-> block, statement_index |-> statement_index]

\* fail as a first-failure-only reporter: nothing is recorded once the sink
\* holds a report.
fail_FirstOnly(s, location, msg) ==
    IF s # <<>>
    THEN s
    ELSE Append(s, [def_id |-> DefId, when |-> When, location |-> location, msg |-> msg])

\* fail as a deduplicating reporter: a report the sink already holds is
\* not recorded again.
fail_Dedup(s, location, msg) ==
    LET r == [def_id |-> DefId, when |-> When, location |-> location, msg |-> msg]
    IN  IF \E i \in 1..Len(s) : s[i] = r THEN s ELSE Append(s, r)

\* TypeChecker::fail: one delayed bug, appended to the sink; it returns.
fail(s, location, msg) ==
    Append(s, [def_id |-> DefId, when |-> When, location |-> location, msg |-> msg])

\* The bounds test off by one: the id one past the last block passes.
bb_is_none_OffByOne(bb) == ~(bb >= 0 /\ bb <= Len(body.basic_blocks))

\* basic_blocks().get(bb).is_none(): block ids index the block table from 0.
bb_is_none(bb) == ~(bb >= 0 /\ bb < Len(body.basic_blocks))

\* TypeChecker::check_bb
check_bb(s, location, bb) ==
    IF bb_is_none(bb) THEN fail(s, location, InvalidBB(bb)) ELSE s

\* if let Some(bb) = opt { self.check_bb(location, *bb) }
check_opt_bb(s, location, opt) ==
    IF opt # None THEN check_bb(s, location, opt[1]) ELSE s

\* for target in targets { self.check_bb(location, *target) }
RECURSIVE check_targets(_, _, _)
check_targets(s, location, targets) ==
    IF targets = <<>>
    THEN s
    ELSE check_targets(check_bb(s, location, Head(targets)), location, Tail(targets))

\* TypeChecker::visit_operand.  super_operand only walks on into the place
\* or the constant, for which the TypeChecker overrides nothing.
visit_operand(s, operand, location) ==
    IF operand.kind = "Copy"
    THEN LET ty == PlaceTy(operand.place, body.local_decls)
         IN  IF ~is_copy_modulo_regions(ty, param_env)
             THEN fail(s, location, CopyNonCopy(ty))
             ELSE s
    ELSE s

\* Place equality that compares the locals and forgets the projections.
places_equal_LocalOnly(dest, src) == dest.local = src.local

\* dest == src on places: the same local and the same projection chain.
places_equal(dest, src) ==
    dest.local = src.local /\ dest.projection = src.projection

\* TypeChecker::visit_statement.  The override ends without calling
\* super_statement, so the rvalue and its operands are not visited.
visit_statement(s, statement, location) ==
    IF statement.kind = "Assign"
    THEN IF /\ statement.rvalue.kind = "Use"
            /\ statement.rvalue.operand.kind \in {"Copy", "Move"}
            /\ places_equal(statement.dest, statement.rvalue.operand.place)
         THEN fail(s, location, Overlapping)
         ELSE s
    ELSE s

\* The arity test without the otherwise target.
switch_arity_mismatch_NoOtherwise(targets, values) == Len(targets) # Len(values)

\* targets.len() != values.len() + 1
switch_arity_mismatch(targets, values) == Len(targets) # Len(values) + 1

\* The SwitchInt arm of visit_terminator.
visit_SwitchInt(s, terminator, location) ==
    LET s1 == IF switch_arity_mismatch(terminator.targets, terminator.values)
              THEN fail(s, location,
                        SwitchArity(Len(terminator.values), Len(terminator.targets)))
              ELSE s
    IN  check_targets(s1, location, terminator.targets)

\* The callable test that forgets function pointers.
is_callable_FnDefOnly(ty) == ty = "FnDef"

\* ty::FnPtr(..) | ty::FnDef(..)
is_callable(ty) == ty \in {"FnPtr", "FnDef"}

\* The Call arm returning right after the report of a non-callable callee.
visit_Call_ShortCircuit(s, terminator, location) ==
    LET func_ty == OperandTy(terminator.func, body.local_decls)
    IN  IF ~is_callable(func_ty)
        THEN fail(s, location, NonCallable(func_ty))
        ELSE check_opt_bb(
                 IF terminator.destination # None
                 THEN check_bb(s, location, terminator.destination[1].target)
                 ELSE s,
                 location, terminator.cleanup)

\* The Call arm of visit_terminator.
visit_Call(s, terminator, location) ==
    LET func_ty == OperandTy(terminator.func, body.local_decls)
        s1 == IF is_callable(func_ty)
              THEN s
              ELSE fail(s, location, NonCallable(func_ty))
        s2 == IF terminator.destination # None
              THEN check_bb(s1, location, terminator.destination[1].target)
              ELSE s1
    IN  check_opt_bb(s2, location, terminator.cleanup)

\* The Assert arm returning right after the report of a non-boolean
\* condition.
visit_Assert_ShortCircuit(s, terminator, location) ==
    LET cond_ty == OperandTy(terminator.cond, body.local_decls)
    IN  IF cond_ty # "bool"
        THEN fail(s, location, NonBoolean(cond_ty))
        ELSE check_opt_bb(check_bb(s, location, terminator.target),
                          location, terminator.cleanup)

\* The Assert arm of visit_terminator.
visit_Assert(s, terminator, location) ==
    LET cond_ty == OperandTy(terminator.cond, body.local_decls)
        s1 == IF cond_ty # "bool"
              THEN fail(s, location, NonBoolean(cond_ty))
              ELSE s
        s2 == check_bb(s1, location, terminator.target)
    IN  check_opt_bb(s2, location, terminator.cleanup)

\* TypeChecker::visit_terminator.  The override never calls
\* super_terminator, so the operands of the terminator are not visited.
visit_terminator(s, terminator, location) ==
    CASE terminator.kind = "Goto" ->
           check_bb(s, location, terminator.target)
      [] terminator.kind = "SwitchInt" ->
           visit_SwitchInt(s, terminator, location)
      [] terminator.kind \in {"Drop", "DropAndReplace"} ->
           check_opt_bb(check_bb(s, location, terminator.target),
                        location, terminator.unwind)
      [] terminator.kind = "Call" ->
           visit_Call(s, terminator, location)
      [] terminator.kind = "Assert" ->
           visit_Assert(s, terminator, location)
      [] terminator.kind = "Yield" ->
           check_opt_bb(check_bb(s, location, terminator.resume),
                        location, terminator.drop)
      [] terminator.kind = "FalseEdge" ->
           check_bb(check_bb(s, location, terminator.real_target),
                    location, terminator.imaginary_target)
      [] terminator.kind = "FalseUnwind" ->
           check_opt_bb(check_bb(s, location, terminator.real_target),
                        location, terminator.unwind)
      [] terminator.kind = "InlineAsm" ->
           check_opt_bb(s, location, terminator.destination)
      [] terminator.kind \in NoSuccessorKinds -> s

(***************************************************************************)
(* The explored bodies.                                                    *)
(***************************************************************************)
SeqsUpTo(S, n) == UNION {[1..k -> S] : k \in 0..n}

OptionOf(S) == {None} \cup {Some(x) : x \in S}

Block(statements, terminator) ==
    [statements |-> statements, terminator |-> terminator]

MkBody(blocks) == [local_decls |-> LocalDecls, basic_blocks |-> blocks]

\* The statements of the single-block bodies: assignments between _1 and
\* its field _1.0 by Copy and by Move, from a constant, from the generic
\* local, through a unary operation, and a statement that is no assignment.
P1 == LocalPlace(1)

P1f == FieldPlace(1, 0, "Param")

StmtsFull ==
    {Assign(d, Use(op)) : d \in {P1, P1f}, op \in {Copy(P1), Move(P1), Copy(P1f), Move(P1f)}}
    \cup {Assign(P1, Use(Constant("bool"))), Assign(P1, Use(Copy(LocalPlace(3)))),
          Assign(P1, UnaryOp(Copy(P1))), Assign(P1f, UnaryOp(Move(P1f))), Nop}

\* The callee and condition operands of the explored terminators.
FuncOperands ==
    {Copy(LocalPlace(2)), Constant("FnPtr"), Move(P1), Copy(P1)}

CondOperands == {Constant("bool"), Copy(LocalPlace(0)), Move(P1), Copy(P1f)}

\* Every terminator kind over the block ids ids.
TermsFull(ids) ==
    {Goto(t) : t \in ids}
    \cup {SwitchInt(v, t) : v \in SeqsUpTo({0}, MaxValues), t \in SeqsUpTo(ids, MaxTargets)}
    \cup {Drop(t, u) : t \in ids, u \in OptionOf(ids)}
    \cup {DropAndReplace(t, u) : t \in ids, u \in OptionOf(ids)}
    \cup {Call(f, d, c) : f \in FuncOperands,
                          d \in OptionOf({[place |-> P1, target |-> t] : t \in ids}),
                          c \in OptionOf(ids)}
    \cup {AssertTerm(o, t, c) : o \in CondOperands, t \in ids, c \in OptionOf(ids)}
    \cup {Yield(r, d) : r \in ids, d \in OptionOf(ids)}
    \cup {FalseEdge(r, i) : r \in ids, i \in ids}
    \cup {FalseUnwind(r, u) : r \in ids, u \in OptionOf(ids)}
    \cup {InlineAsm(d) : d \in OptionOf(ids)}
    \cup {Exit(k) : k \in NoSuccessorKinds}

\* The blocks of the multi-block bodies: at most one statement (an
\* overlapping or a sound assignment), and a jump to any id up to the first
\* id no body has, a return, or an assert with two violations.
StmtsSmall == {Assign(P1, Use(Move(P1))), Assign(P1, Use(Copy(LocalPlace(3))))}

TermsSmall ==
    {Goto(t) : t \in 0..MaxBlocks}
    \cup {Exit("Return"), AssertTerm(Move(P1), 0, Some(MaxBlocks))}

Bodies ==
    \* one block, no statement, any terminator over ids 0 (the block) and 1
    {MkBody(<<Block(<<>>, t)>>) : t \in TermsFull({0, 1})}
    \* one block of statements that returns
    \cup {MkBody(<<Block(ss, Exit("Return"))>>) : ss \in SeqsUpTo(StmtsFull, MaxStmts)}
    \* zero to MaxBlocks blocks
    \cup {MkBody(bs) : bs \in SeqsUpTo({Block(ss, t) : ss \in SeqsUpTo(StmtsSmall, 1),
                                                        t \in TermsSmall}, MaxBlocks)}

(***************************************************************************)
(* The Visitor walks:  blocks in storage order, in a block the statements  *)
(* in sequence and then the terminator.                                    *)
(***************************************************************************)
NumBlocks == Len(body.basic_blocks)

\* The block the walk stands in (block ids count from 0).
CurBlock == body.basic_blocks[loc.block + 1]

\* super_body: the walk starts at the first statement of the first block.
StartLocation == Location(0, 0)

\* super_basic_block_data: after a statement, the next index of the block.
AfterStatement(l) == Location(l.block, l.statement_index + 1)

\* super_body: after a terminator, the next block in storage order.
AfterTerminator(l) == Location(l.block + 1, 0)

RunReports == SubSeq(sink, runStart + 1, Len(sink))

Init ==
    /\ body \in Bodies
    /\ param_env \in {{}, {"Param"}}
    /\ sink = <<>>
    /\ pc = "idle"
    /\ loc = StartLocation
    /\ visited = <<>>
    /\ runs = 0
    /\ runStart = 0
    /\ firstReports = <<>>
    /\ lastReports = <<>>

\* Validator::run_pass is entered: the TypeChecker is built and visit_body
\* starts.
RunPass ==
    /\ pc = "idle"
    /\ runs < MaxRuns
    /\ pc' = "walk"
    /\ loc' = StartLocation
    /\ visited' = <<>>
    /\ runStart' = Len(sink)
    /\ UNCHANGED <<body, param_env, sink, runs, firstReports, lastReports>>

\* The walk dispatches the next statement of the block to visit_statement.
VisitStatement ==
    /\ pc = "walk"
    /\ loc.block < NumBlocks
    /\ loc.statement_index < Len(CurBlock.statements)
    /\ sink' = visit_statement(sink, CurBlock.statements[loc.statement_index + 1], loc)
    /\ visited' = Append(visited, [node |-> "statement", location |-> loc])
    /\ loc' = AfterStatement(loc)
    /\ UNCHANGED <<body, param_env, pc, runs, runStart, firstReports, lastReports>>

\* visit_terminator walking on into the block a Goto names, when there is
\* one, instead of leaving the next block to the walk.
VisitTerminator_Follow ==
    /\ pc = "walk"
    /\ loc.block < NumBlocks
    /\ loc.statement_index = Len(CurBlock.statements)
    /\ sink' = visit_terminator(sink, CurBlock.terminator, loc)
    /\ visited' = Append(visited, [node |-> "terminator", location |-> loc])
    /\ loc' = IF CurBlock.terminator.kind = "Goto" /\ ~bb_is_none(CurBlock.terminator.target)
              THEN Location(CurBlock.terminator.target, 0)
              ELSE AfterTerminator(loc)
    /\ UNCHANGED <<body, param_env, pc, runs, runStart, firstReports, lastReports>>

\* The walk dispatches the terminator of the block to visit_terminator.
VisitTerminator ==
    /\ pc = "walk"
    /\ loc.block < NumBlocks
    /\ loc.statement_index = Len(CurBlock.statements)
    /\ sink' = visit_terminator(sink, CurBlock.terminator, loc)
    /\ visited' = Append(visited, [node |-> "terminator", location |-> loc])
    /\ loc' = AfterTerminator(loc)
    /\ UNCHANGED <<body, param_env, pc, runs, runStart, firstReports, lastReports>>

\* No block is left: visit_body and run_pass return.
Return ==
    /\ pc = "walk"
    /\ loc.block = NumBlocks
    /\ pc' = "idle"
    /\ runs' = runs + 1
    /\ firstReports' = IF runs = 0 THEN RunReports ELSE firstReports
    /\ lastReports' = RunReports
    /\ UNCHANGED <<body, param_env, sink, loc, visited, runStart>>

Next == RunPass \/ VisitStatement \/ VisitTerminator \/ Return

Spec == Init /\ [][Next]_vars

\* The pass is one synchronous call: once entered, it keeps running.
FairSpec == Spec /\ WF_vars(VisitStatement \/ VisitTerminator \/ Return)

(***************************************************************************)
(* What the properties below speak about.                                  *)
(***************************************************************************)
\* run_pass has returned at least once.
Done == pc = "idle" /\ runs >= 1

BlockIds == 0..(NumBlocks - 1)

BlockAt(b) == body.basic_blocks[b + 1]

TermLoc(b) == Location(b, Len(BlockAt(b).statements))

ReportsAt(rs, l) == SelectSeq(rs, LAMBDA r : r.location = l)

NumAt(rs, l, m) == Len(SelectSeq(rs, LAMBDA r : r.location = l /\ r.msg = m))

NumTextAt(rs, l, text) ==
    Len(SelectSeq(rs, LAMBDA r : r.location = l /\ r.msg.text = text))

CountIn(seq, x) == Cardinality({i \in 1..Len(seq) : seq[i] = x})

IsPrefix(s, t) == Len(s) <= Len(t) /\ SubSeq(t, 1, Len(s)) = s

\* The block id names no block of the body.
Absent(id) == id \notin BlockIds

OptSlot(opt) == IF opt = None THEN <<>> ELSE <<opt[1]>>

\* The successor slots each terminator kind carries, in the order listed.
Slots(t) ==
    CASE t.kind = "Goto" -> <<t.target>>
      [] t.kind = "SwitchInt" -> t.targets
      [] t.kind \in {"Drop", "DropAndReplace"} -> <<t.target>> \o OptSlot(t.unwind)
      [] t.kind = "Call" ->
           (IF t.destination = None THEN <<>> ELSE <<t.destination[1].target>>)
           \o OptSlot(t.cleanup)
      [] t.kind = "Assert" -> <<t.target>> \o OptSlot(t.cleanup)
      [] t.kind = "Yield" -> <<t.resume>> \o OptSlot(t.drop)
      [] t.kind = "FalseEdge" -> <<t.real_target, t.imaginary_target>>
      [] t.kind = "FalseUnwind" -> <<t.real_target>> \o OptSlot(t.unwind)
      [] t.kind = "InlineAsm" -> OptSlot(t.destination)
      [] OTHER -> <<>>

NumAbsent(t) == Cardinality({i \in 1..Len(Slots(t)) : Absent(Slots(t)[i])})

\* The operands a statement or a terminator of the explored bodies holds.
OperandsOfStatement(st) == IF st.kind = "Assign" THEN <<st.rvalue.operand>> ELSE <<>>

OperandsOfTerminator(t) ==
    CASE t.kind = "Call" -> <<t.func>>
      [] t.kind = "Assert" -> <<t.cond>>
      [] OTHER -> <<>>

\* The node at a location of the body, and its operands.
IsTermLoc(l) == l.statement_index = Len(BlockAt(l.block).statements)

OperandsAt(l) ==
    IF IsTermLoc(l)
    THEN OperandsOfTerminator(BlockAt(l.block).terminator)
    ELSE OperandsOfStatement(BlockAt(l.block).statements[l.statement_index + 1])

NodeLocs ==
    {Location(b, i) : b \in BlockIds, i \in 0..MaxStmts + 1}
    \cap UNION {{Location(b, i) : i \in 0..Len(BlockAt(b).statements)} : b \in BlockIds}

\* Copy operands at a location whose place has the non-duplicable type ty.
BadCopies(l, ty) ==
    Cardinality({i \in 1..Len(OperandsAt(l)) :
        /\ OperandsAt(l)[i].kind = "Copy"
        /\ PlaceTy(OperandsAt(l)[i].place, body.local_decls) = ty
        /\ ~is_copy_modulo_regions(ty, param_env)})

\* A direct assignment whose two sides are the same place.
SelfAssign(st) ==
    /\ st.kind = "Assign"
    /\ st.rvalue.kind = "Use"
    /\ st.rvalue.operand.kind \in {"Copy", "Move"}
    /\ st.dest = st.rvalue.operand.place

WellFormed ==
    \A b \in BlockIds :
        LET t == BlockAt(b).terminator
            ss == BlockAt(b).statements
        IN  /\ NumAbsent(t) = 0
            /\ \A i \in 1..Len(ss) : ~SelfAssign(ss[i])
            /\ \A l \in NodeLocs, ty \in Types : BadCopies(l, ty) = 0
            /\ t.kind = "SwitchInt" => Len(t.targets) = Len(t.values) + 1
            /\ t.kind = "Call" =>
                   OperandTy(t.func, body.local_decls) \in {"FnPtr", "FnDef"}
            /\ t.kind = "Assert" => OperandTy(t.cond, body.local_decls) = "bool"

\* The reports of the nodes of the body, each node taken on its own against
\* an empty sink, block after block.
RECURSIVE StatementReports(_, _, _)
StatementReports(b, ss, i) ==
    IF i > Len(ss)
    THEN <<>>
    ELSE visit_statement(<<>>, ss[i], Location(b, i - 1)) \o StatementReports(b, ss, i + 1)

BlockReports(b) ==
    StatementReports(b, BlockAt(b).statements, 1)
    \o visit_terminator(<<>>, BlockAt(b).terminator, TermLoc(b))

RECURSIVE BodyReports(_)
BodyReports(b) == IF b >= NumBlocks THEN <<>> ELSE BlockReports(b) \o BodyReports(b + 1)

\* The nodes of the body in storage order.
RECURSIVE BlockVisits(_, _)
BlockVisits(b, i) ==
    IF i = Len(BlockAt(b).statements)
    THEN <<[node |-> "terminator", location |-> Location(b, i)]>>
    ELSE <<[node |-> "statement", location |-> Location(b, i)]>> \o BlockVisits(b, i + 1)

RECURSIVE StorageOrder(_)
StorageOrder(b) == IF b >= NumBlocks THEN <<>> ELSE BlockVisits(b, 0) \o StorageOrder(b + 1)

(***************************************************************************)
(* Properties.                                                             *)
(***************************************************************************)

\* C1: every Copy operand of the body whose place has a non-duplicable type,
\* in an assignment or in a terminator, yields exactly one non-duplicable-copy
\* report naming that type at its location; a Move yields none.
C1_EveryCopyOperandChecked ==
    Done => \A l \in NodeLocs, ty \in Types :
                NumAt(lastReports, l, CopyNonCopy(ty)) = BadCopies(l, ty)

\* C2: on a well-formed body the pass appends no report to the sink.
C2_WellFormedSilent == WellFormed => sink = <<>>

C2_Witness ==
    /\ Done
    /\ WellFormed
    /\ \E b \in BlockIds : BlockAt(b).terminator.kind \in {"Call", "SwitchInt", "Assert"}

\* C3: the invalid-block reports of a terminator are one per successor slot
\* whose id is absent from the body, each naming that id; a Goto yields
\* nothing else, and the kinds without successors yield nothing at all.
C3_DanglingPerSlot ==
    Done => \A b \in BlockIds :
        LET t == BlockAt(b).terminator
            l == TermLoc(b)
        IN  /\ \A i \in 1..Len(Slots(t)) :
                   NumAt(lastReports, l, InvalidBB(Slots(t)[i])) =
                       IF Absent(Slots(t)[i]) THEN CountIn(Slots(t), Slots(t)[i]) ELSE 0
            /\ NumTextAt(lastReports, l, InvalidBB(0).text) = NumAbsent(t)
            /\ t.kind = "Goto" => Len(ReportsAt(lastReports, l)) = NumAbsent(t)
            /\ t.kind \in NoSuccessorKinds => ReportsAt(lastReports, l) = <<>>

C3_Witness ==
    /\ Done
    /\ \E b \in BlockIds :
           /\ BlockAt(b).terminator.kind = "SwitchInt"
           /\ NumAt(lastReports, TermLoc(b), InvalidBB(1)) = 2

\* C4: a statement yields exactly one overlapping-memory report when it is a
\* direct Copy or Move assignment between identical places, and none
\* otherwise.
C4_AliasIffIdentical ==
    Done => \A b \in BlockIds : \A i \in 1..Len(BlockAt(b).statements) :
        NumTextAt(lastReports, Location(b, i - 1), Overlapping.text) =
            IF SelfAssign(BlockAt(b).statements[i]) THEN 1 ELSE 0

C4_Witness ==
    /\ Done
    /\ \E b \in BlockIds : \E i \in 1..Len(BlockAt(b).statements) :
           /\ SelfAssign(BlockAt(b).statements[i])
           /\ BlockAt(b).statements[i].dest.projection # <<>>
           /\ NumAt(lastReports, Location(b, i - 1), Overlapping) = 1

\* C5: a SwitchInt with N values and M targets yields exactly one arity
\* report, carrying N and M, iff M # N + 1, and whatever the arity one
\* invalid-block report per listed target that is no block of the body.
C5_SwitchArity ==
    Done => \A b \in BlockIds :
        LET t == BlockAt(b).terminator
            l == TermLoc(b)
        IN  t.kind = "SwitchInt" =>
            /\ NumAt(lastReports, l, SwitchArity(Len(t.values), Len(t.targets))) =
                   IF Len(t.targets) # Len(t.values) + 1 THEN 1 ELSE 0
            /\ NumTextAt(lastReports, l, SwitchArity(0, 0).text) =
                   IF Len(t.targets) # Len(t.values) + 1 THEN 1 ELSE 0
            /\ NumTextAt(lastReports, l, InvalidBB(0).text) = NumAbsent(t)

C5_Witness ==
    /\ Done
    /\ \E b \in BlockIds :
           LET t == BlockAt(b).terminator
           IN  /\ t.kind = "SwitchInt"
               /\ Len(t.targets) # Len(t.values) + 1
               /\ NumAbsent(t) > 0
               /\ Len(ReportsAt(lastReports, TermLoc(b))) = 1 + NumAbsent(t)

\* C6: a Call yields exactly one non-callable report iff the type of the
\* callee is neither a function pointer nor a function item, and with j
\* absent successors among destination and cleanup it yields j more.
C6_CallCallee ==
    Done => \A b \in BlockIds :
        LET t == BlockAt(b).terminator
            l == TermLoc(b)
            bad == OperandTy(t.func, body.local_decls) \notin {"FnPtr", "FnDef"}
        IN  t.kind = "Call" =>
            /\ NumAt(lastReports, l, NonCallable(OperandTy(t.func, body.local_decls))) =
                   IF bad THEN 1 ELSE 0
            /\ Len(ReportsAt(lastReports, l)) = (IF bad THEN 1 ELSE 0) + NumAbsent(t)

C6_Witness ==
    /\ Done
    /\ \E b \in BlockIds :
           LET t == BlockAt(b).terminator
           IN  /\ t.kind = "Call"
               /\ OperandTy(t.func, body.local_decls) = "Struct"
               /\ NumAbsent(t) = 2
               /\ Len(ReportsAt(lastReports, TermLoc(b))) = 3

\* C7: an Assert yields a non-boolean report iff the type of its condition
\* is not bool, and with j absent successors among target and cleanup it
\* yields j invalid-block reports as well.
C7_AssertCondition ==
    Done => \A b \in BlockIds :
        LET t == BlockAt(b).terminator
            l == TermLoc(b)
            bad == OperandTy(t.cond, body.local_decls) # "bool"
        IN  t.kind = "Assert" =>
            /\ NumAt(lastReports, l, NonBoolean(OperandTy(t.cond, body.local_decls))) =
                   IF bad THEN 1 ELSE 0
            /\ NumTextAt(lastReports, l, InvalidBB(0).text) = NumAbsent(t)
            /\ Len(ReportsAt(lastReports, l)) = (IF bad THEN 1 ELSE 0) + NumAbsent(t)

C7_Witness ==
    /\ Done
    /\ \E b \in BlockIds :
           LET t == BlockAt(b).terminator
           IN  /\ t.kind = "Assert"
               /\ OperandTy(t.cond, body.local_decls) # "bool"
               /\ NumAbsent(t) = 2
               /\ Len(ReportsAt(lastReports, TermLoc(b))) = 3

\* C8: when the pass has returned, its reports are those every statement and
\* terminator of every block yields on its own, none lost to an earlier one.
C8_Exhaustive == Done => lastReports = BodyReports(0)

C8_Witness ==
    /\ Done
    /\ NumBlocks >= 2
    /\ \E i, j \in 1..Len(lastReports) :
           lastReports[i].location.block < lastReports[j].location.block

\* C9: the pass always returns, having visited the nodes of the body once
\* each in storage order, whatever the successors name.
C9_TerminatesInStorageOrder ==
    /\ (pc = "walk") ~> (pc = "idle")
    /\ [](pc = "walk" => IsPrefix(visited, StorageOrder(0)))
    /\ [](Done => visited = StorageOrder(0))

C9_Witness ==
    /\ Done
    /\ NumBlocks = 2
    /\ BlockAt(0).terminator = Goto(1)
    /\ BlockAt(1).terminator = Goto(0)
    /\ Len(visited) >= 3

\* C10: a step of the pass leaves the body and the parameter environment as
\* they were and only appends to the sink, and a later run on the same body
\* yields the reports of the first.
C10_ReadOnlyStateless ==
    /\ [][body' = body /\ param_env' = param_env /\ IsPrefix(sink, sink')]_vars
    /\ [](Done => lastReports = firstReports)

C10_Witness ==
    /\ pc = "idle"
    /\ runs = 2
    /\ Len(lastReports) >= 2
    /\ Len(sink) = 2 * Len(lastReports)

=============================================================================
